---- MODULE Spec2Model ----
(***************************************************************************)
(* Twin SVM estimators of libtsvm/estimators.py (BaseTSVM, TSVM, LSTSVM):  *)
(* one estimator object, its constructor, fit, predict, decision_function  *)
(* and the attribute writes of sklearn's set_params.                       *)
(*                                                                         *)
(* Numbers.  numpy computes in binary floating point (float64: 53-bit      *)
(* significand, round to nearest even).  The model keeps that arithmetic   *)
(* and narrows the significand to Precision bits; the exponent is          *)
(* unbounded, so there is no overflow to inf and no NaN.  A Float is       *)
(* [m, e] with value m * 2^e, either zero ([0, 0]) or normalised to        *)
(* 2^(Precision-1) <= |m| < 2^Precision.                                   *)
(***************************************************************************)
EXTENDS Integers, Sequences, FiniteSets, TLC

\* Significand width of the model's floating point numbers (float64: 53).
Precision == 11

Pow2(k) == 2 ^ k

AbsInt(n) == IF n < 0 THEN -n ELSE n

SgnInt(n) == IF n < 0 THEN -1 ELSE IF n = 0 THEN 0 ELSE 1

\* the number of bits of 0 <= n < 16
BitLen4(n) == IF n < 4 THEN (IF n < 2 THEN n ELSE 2) ELSE (IF n < 8 THEN 3 ELSE 4)

\* the number of bits of 0 <= n < 256
BitLen8(n) == IF n < 16 THEN BitLen4(n) ELSE 4 + BitLen4(n \div 16)

\* the number of bits of 0 <= n < 2^31
BitLen(n) ==
  IF n < 65536
  THEN (IF n < 256 THEN BitLen8(n) ELSE 8 + BitLen8(n \div 256))
  ELSE (IF n < 16777216 THEN 16 + BitLen8(n \div 65536)
                        ELSE 24 + BitLen8(n \div 16777216))

FZero == [m |-> 0, e |-> 0]

\* m * 2^e rounded to Precision bits, ties to even (IEEE 754 default mode).
Round(m, e) ==
  IF m = 0 THEN FZero
  ELSE LET a == AbsInt(m)
           L == BitLen(a)
       IN IF L <= Precision
          THEN [m |-> m * Pow2(Precision - L), e |-> e - (Precision - L)]
          ELSE LET sh   == L - Precision
                   q    == a \div Pow2(sh)
                   r    == a % Pow2(sh)
                   half == Pow2(sh - 1)
                   q2   == IF r > half \/ (r = half /\ q % 2 = 1) THEN q + 1 ELSE q
               IN IF q2 = Pow2(Precision)
                  THEN [m |-> SgnInt(m) * Pow2(Precision - 1), e |-> e + sh + 1]
                  ELSE [m |-> SgnInt(m) * q2, e |-> e + sh]

FromInt(n) == Round(n, 0)

FOne == FromInt(1)

FNeg(a) == [m |-> -a.m, e |-> a.e]

FAbs(a) == [m |-> AbsInt(a.m), e |-> a.e]

FMul(a, b) == Round(a.m * b.m, a.e + b.e)

FAdd(a, b) ==
  IF a.m = 0 THEN b
  ELSE IF b.m = 0 THEN a
  ELSE LET hi == IF a.e >= b.e THEN a ELSE b
           lo == IF a.e >= b.e THEN b ELSE a
           d  == hi.e - lo.e
       IN IF d >= Precision + 2 THEN hi
          ELSE Round(hi.m * Pow2(d) + lo.m, lo.e)

FSub(a, b) == FAdd(a, FNeg(b))

\* a / b for b # 0: a quotient of Precision + 2 bits and a sticky bit, rounded.
FDiv(a, b) ==
  IF a.m = 0 THEN FZero
  ELSE LET num == AbsInt(a.m) * Pow2(Precision + 2)
           q   == num \div AbsInt(b.m)
           st  == IF num % AbsInt(b.m) = 0 THEN 0 ELSE 1
       IN Round(SgnInt(a.m) * SgnInt(b.m) * (2 * q + st),
                a.e - b.e - (Precision + 2) - 1)

\* Rounding never turns a non-zero difference into zero (no underflow).
FLess(a, b) == FSub(a, b).m < 0

\* Python's int(x) on a float: truncation towards zero.
IntTrunc(a) ==
  IF a.e >= 0 THEN a.m * Pow2(a.e)
  ELSE IF -a.e > 30 THEN 0
  ELSE SgnInt(a.m) * (AbsInt(a.m) \div Pow2(-a.e))

\* 2^k as a Float (exact).
Exp2(k) == [m |-> Pow2(Precision - 1), e |-> k - (Precision - 1)]


(***************************************************************************)
(* numpy arrays.  A 2-D array is [rows, cols, at] with at[i, j] a Float    *)
(* (indices from 1); a 1-D array of n entries is carried as the 1 x n      *)
(* array.  Mat evaluates the entries once (a function is otherwise         *)
(* re-evaluated at every application).                                     *)
(***************************************************************************)
\* the function f with every value computed
Forced(f) == IF f = f THEN f ELSE f

Mat(r, c, F(_, _)) ==
  [rows |-> r, cols |-> c, at |-> Forced([p \in (1..r) \X (1..c) |-> F(p[1], p[2])])]

\* Python's None, as the value of an attribute that holds no array.
None == [rows |-> -1, cols |-> -1, at |-> <<>>]

RECURSIVE FSum(_, _, _)
\* F(lo) + ... + F(hi), accumulated left to right from 0.0.
FSum(F(_), lo, hi) == IF hi < lo THEN FZero ELSE FAdd(FSum(F, lo, hi - 1), F(hi))

np_dot(A, B) ==
  Mat(A.rows, B.cols, LAMBDA i, j : FSum(LAMBDA k : FMul(A.at[i, k], B.at[k, j]), 1, A.cols))

np_transpose(A) == Mat(A.cols, A.rows, LAMBDA i, j : A.at[j, i])

np_ones(r, c) == Mat(r, c, LAMBDA i, j : FOne)

np_identity(n) == Mat(n, n, LAMBDA i, j : IF i = j THEN FOne ELSE FZero)

np_column_stack(A, B) ==
  Mat(A.rows, A.cols + B.cols,
      LAMBDA i, j : IF j <= A.cols THEN A.at[i, j] ELSE B.at[i, j - A.cols])

np_row_stack(A, B) ==
  Mat(A.rows + B.rows, A.cols,
      LAMBDA i, j : IF i <= A.rows THEN A.at[i, j] ELSE B.at[i - A.rows, j])

\* c * A for a scalar c
Scale(c, A) == Mat(A.rows, A.cols, LAMBDA i, j : FMul(c, A.at[i, j]))

\* A / c for a scalar c
DivBy(A, c) == Mat(A.rows, A.cols, LAMBDA i, j : FDiv(A.at[i, j], c))

MatAdd(A, B) == Mat(A.rows, A.cols, LAMBDA i, j : FAdd(A.at[i, j], B.at[i, j]))

MatSub(A, B) == Mat(A.rows, A.cols, LAMBDA i, j : FSub(A.at[i, j], B.at[i, j]))

Min(a, b) == IF a < b THEN a ELSE b

\* A[:, :k] for k >= 0
FirstCols(A, k) == Mat(A.rows, Min(k, A.cols), LAMBDA i, j : A.at[i, j])

\* A[:A.shape[0] - 1, :]
AllButLastRow(A) == Mat(A.rows - 1, A.cols, LAMBDA i, j : A.at[i, j])

\* A[-1, :]
LastRow(A) == Mat(1, A.cols, LAMBDA i, j : A.at[A.rows, j])

\* A[i, :]
Row(A, i) == Mat(1, A.cols, LAMBDA k, j : A.at[i, j])

RECURSIVE Where(_, _, _)
\* the indices i <= n with y[i] = v, ascending
Where(y, v, n) ==
  IF n = 0 THEN <<>>
  ELSE IF y[n] = v THEN Append(Where(y, v, n - 1), n) ELSE Where(y, v, n - 1)

\* X[idx]: the rows of X at the indices idx
TakeRows(X, idx) == Mat(Len(idx), X.cols, LAMBDA i, j : X.at[idx[i], j])

\* X[y == v]: the rows of X whose label is v, in their order in X
SelectRows(X, y, v) == TakeRows(X, Where(y, v, Len(y)))

(***************************************************************************)
(* np.linalg.inv: LAPACK gesv on [A | I], an LU factorisation with partial *)
(* pivoting.  It raises LinAlgError exactly when a pivot is 0.0.           *)
(***************************************************************************)
\* the first row p in c..n with the largest |W[p, c]| (idamax)
PivotRow(W, c) ==
  CHOOSE p \in c..W.rows :
    /\ \A q \in c..W.rows : ~FLess(FAbs(W.at[p, c]), FAbs(W.at[q, c]))
    /\ \A q \in c..(p - 1) : FLess(FAbs(W.at[q, c]), FAbs(W.at[p, c]))

SwapRows(W, a, b) ==
  Mat(W.rows, W.cols,
      LAMBDA i, j : W.at[(IF i = a THEN b ELSE IF i = b THEN a ELSE i), j])

\* row i := row i - l[i] * row c, for every row i # c
EliminateBy(W, c, l) ==
  Mat(W.rows, W.cols,
      LAMBDA i, j : IF i = c THEN W.at[i, j]
                    ELSE FSub(W.at[i, j], FMul(l.at[i, 1], W.at[c, j])))

\* row i := row i - (W[i, c] / W[c, c]) * row c, for every row i # c
Eliminate(W, c) ==
  EliminateBy(W, c, Mat(W.rows, 1, LAMBDA i, j : FDiv(W.at[i, c], W.at[c, c])))

RECURSIVE Reduce(_, _), ReducePivoted(_, _, _)
\* the columns c, c + 1, ... of W reduced, as [singular, W]
Reduce(W, c) ==
  IF c > W.rows THEN [singular |-> FALSE, W |-> W]
  ELSE ReducePivoted(W, c, SwapRows(W, c, PivotRow(W, c)))

\* S is W with the pivot row of column c exchanged into row c
ReducePivoted(W, c, S) ==
  IF S.at[c, c].m = 0 THEN [singular |-> TRUE, W |-> W]
  ELSE Reduce(Eliminate(S, c), c + 1)

\* the right half of the reduced [A | I], each row divided by its pivot
Reduced_inv(n, R) ==
  [singular |-> R.singular,
   inv |-> IF R.singular THEN None
           ELSE Mat(n, n, LAMBDA i, j : FDiv(R.W.at[i, n + j], R.W.at[i, i]))]

\* [singular, inv]: singular means np.linalg.inv raises LinAlgError
np_linalg_inv(A) ==
  Reduced_inv(A.rows, Reduce(np_column_stack(A, np_identity(A.rows)), 1))


(***************************************************************************)
(* rbf_kernel(x, y, u) = np.exp(-2 * u) * np.exp(2 * u * np.dot(x, y)).    *)
(* The attribute gamma is carried as the integer g with gamma = g*ln(2)/2, *)
(* and the features are integers, so that np.exp(2 * u * t) is the power   *)
(* of two 2^(g * t) and np.exp(-2 * u) is 2^(-g).                          *)
(***************************************************************************)
\* np.exp(-2 * u) * np.exp(2 * u * D), entry by entry
rbf_of_dot(D, u) ==
  Mat(D.rows, D.cols, LAMBDA i, j : FMul(Exp2(-u), Exp2(u * IntTrunc(D.at[i, j]))))

rbf_kernel(x, y, u) == rbf_of_dot(np_dot(x, y), u)

(***************************************************************************)
(* clipdcd.optimize(Q, C), the clipped dual coordinate descent solver:     *)
(* alpha starts at 0; a sweep visits the coordinates in index order and    *)
(* sets alpha[i] to alpha[i] + (1 - Q[i, :] . alpha) / Q[i, i] clipped to  *)
(* [0, C], skipping a coordinate with Q[i, i] = 0; the sweeps end when no  *)
(* coordinate moved by ClipDCDTol or more, or after ClipDCDMaxIter sweeps. *)
(***************************************************************************)
ClipDCDMaxIter == 2

ClipDCDTol == Exp2(-5)

Clip(v, lo, hi) == IF FLess(v, lo) THEN lo ELSE IF FLess(hi, v) THEN hi ELSE v

\* alpha with coordinate i moved along the gradient grad and clipped
ClipDCDMove(Q, C, alpha, i, grad) ==
  [alpha EXCEPT ![i] = Clip(FAdd(alpha[i], FDiv(grad, Q.at[i, i])), FZero, C)]

\* alpha after the update of coordinate i
ClipDCDStep(Q, C, alpha, i) ==
  IF Q.at[i, i].m = 0 THEN alpha
  ELSE ClipDCDMove(Q, C, alpha, i,
                   FSub(FOne, FSum(LAMBDA j : FMul(Q.at[i, j], alpha[j]), 1, Q.cols)))

RECURSIVE ClipDCDSweep(_, _, _, _)
\* alpha after the updates of coordinates i, i + 1, ..., n
ClipDCDSweep(Q, C, alpha, i) ==
  IF i > Q.rows THEN alpha
  ELSE ClipDCDSweep(Q, C, ClipDCDStep(Q, C, alpha, i), i + 1)

RECURSIVE ClipDCDIterate(_, _, _, _), ClipDCDConverged(_, _, _, _, _)
ClipDCDIterate(Q, C, alpha, it) ==
  IF it >= ClipDCDMaxIter THEN alpha
  ELSE ClipDCDConverged(Q, C, alpha, it, ClipDCDSweep(Q, C, alpha, 1))

\* next is alpha after sweep it + 1
ClipDCDConverged(Q, C, alpha, it, next) ==
  IF \A i \in 1..Q.rows : FLess(FAbs(FSub(next[i], alpha[i])), ClipDCDTol)
  THEN next
  ELSE ClipDCDIterate(Q, C, next, it + 1)

clipdcd_optimize(Q, C) == ClipDCDIterate(Q, C, Forced([i \in 1..Q.rows |-> FZero]), 0)

\* np.array(alpha).reshape(n, 1)
Reshape(alpha, n) == Mat(n, 1, LAMBDA i, j : alpha[i])

(***************************************************************************)
(* The estimator object.  self is the record of its attributes; a fit      *)
(* returns [self, exc]: the attributes when the call ends and the          *)
(* exception it ends with ("None" when it returns).                        *)
(***************************************************************************)
\* reg_term = 2 ** float(-7)
reg_term == Exp2(-7)

\* the basis without the rect_kernel slice: every sample is a basis column
KernelBasis_untruncated(self, mat_A, mat_B) ==
  np_transpose(np_row_stack(mat_A, mat_B))

\* np.transpose(mat_C)[:, :int(mat_C.shape[0] * self.rect_kernel)]
Basis(self, mat_C) ==
  FirstCols(np_transpose(mat_C), IntTrunc(FMul(FromInt(mat_C.rows), self.rect_kernel)))

\* mat_C_t for mat_C = np.row_stack((mat_A, mat_B))
KernelBasis(self, mat_A, mat_B) == Basis(self, np_row_stack(mat_A, mat_B))

\* mat_H, mat_G: the class matrices (kernel-transformed for RBF) with a
\* column of ones appended
DesignMatrix(self, M) ==
  IF self.kernel = "linear" THEN np_column_stack(M, np_ones(M.rows, 1))
  ELSE np_column_stack(rbf_kernel(M, self.mat_C_t, self.gamma), np_ones(M.rows, 1))

\* self.w, self.b = hyper_p[:hyper_p.shape[0] - 1, :], hyper_p[-1, :]
SetPlane1(self, hyper_p) ==
  [self EXCEPT !.w1 = AllButLastRow(hyper_p), !.b1 = LastRow(hyper_p)]

SetPlane2(self, hyper_p) ==
  [self EXCEPT !.w2 = AllButLastRow(hyper_p), !.b2 = LastRow(hyper_p)]

Returns(self) == [self |-> self, exc |-> "None"]

Raises(self, e) == [self |-> self, exc |-> e]

\* BaseTSVM.fit: pass
BaseTSVM_fit(self, X, y) == Returns(self)

\* alpha_d = clipdcd.optimize(mat_dual, c).reshape(mat_dual.shape[0], 1)
Dual(mat_dual, c) == Reshape(clipdcd_optimize(mat_dual, c), mat_dual.rows)

\* TSVM.fit from the two inverses on: the duals, their solutions and the
\* hyperplanes
TSVM_fit_planes(self, mat_H, mat_G, mat_H_H, mat_G_G) ==
  IF mat_H_H.singular \/ mat_G_G.singular THEN Raises(self, "LinAlgError")
  ELSE Returns(SetPlane2(
         SetPlane1(self,
           Scale(FromInt(-1),
                 np_dot(np_dot(mat_H_H.inv, np_transpose(mat_G)),
                        Dual(np_dot(np_dot(mat_G, mat_H_H.inv), np_transpose(mat_G)),
                             self.C1)))),
         np_dot(np_dot(mat_G_G.inv, np_transpose(mat_H)),
                Dual(np_dot(np_dot(mat_H, mat_G_G.inv), np_transpose(mat_H)),
                     self.C2))))

\* TSVM.fit from mat_H and mat_G on: (H'H + reg_term I)^-1 and
\* (G'G + reg_term I)^-1
TSVM_fit_inverses(self, mat_H, mat_G) ==
  TSVM_fit_planes(self, mat_H, mat_G,
    np_linalg_inv(MatAdd(np_dot(np_transpose(mat_H), mat_H),
                         Scale(reg_term, np_identity(mat_H.cols)))),
    np_linalg_inv(MatAdd(np_dot(np_transpose(mat_G), mat_G),
                         Scale(reg_term, np_identity(mat_G.cols)))))

\* TSVM.fit once self.mat_C_t is stored (RBF) or left alone (linear)
TSVM_fit_design(self, mat_A, mat_B) ==
  TSVM_fit_inverses(self, DesignMatrix(self, mat_A), DesignMatrix(self, mat_B))

\* TSVM.fit from the two class matrices on
TSVM_fit_classes(self, mat_A, mat_B) ==
  TSVM_fit_design(IF self.kernel = "RBF"
                  THEN [self EXCEPT !.mat_C_t = KernelBasis(self, mat_A, mat_B)]
                  ELSE self,
                  mat_A, mat_B)

TSVM_fit(self, X_train, y_train) ==
  TSVM_fit_classes(self, SelectRows(X_train, y_train, 1),
                   SelectRows(X_train, y_train, -1))

\* LSTSVM.fit, linear kernel, from the stored first hyperplane on
LSTSVM_fit_linear_plane2(self, mat_H, mat_e1, inv2) ==
  IF inv2.singular THEN Raises(self, "LinAlgError")
  ELSE Returns(SetPlane2(self, np_dot(inv2.inv, np_dot(np_transpose(mat_H), mat_e1))))

\* LSTSVM.fit, linear kernel, from the first inverse on: the first hyperplane
\* is stored before the second matrix is inverted
LSTSVM_fit_linear_plane1(self, mat_H, mat_G, mat_e1, mat_e2, inv1) ==
  IF inv1.singular THEN Raises(self, "LinAlgError")
  ELSE LSTSVM_fit_linear_plane2(
         SetPlane1(self, Scale(FromInt(-1),
                               np_dot(inv1.inv, np_dot(np_transpose(mat_G), mat_e2)))),
         mat_H, mat_e1,
         np_linalg_inv(MatAdd(np_dot(np_transpose(mat_H), mat_H),
                              Scale(FDiv(FOne, self.C2),
                                    np_dot(np_transpose(mat_G), mat_G)))))

\* LSTSVM.fit, linear kernel, from mat_H and mat_G on
LSTSVM_fit_linear_design(self, mat_H, mat_G, mat_e1, mat_e2) ==
  LSTSVM_fit_linear_plane1(self, mat_H, mat_G, mat_e1, mat_e2,
    np_linalg_inv(MatAdd(np_dot(np_transpose(mat_G), mat_G),
                         Scale(FDiv(FOne, self.C1),
                               np_dot(np_transpose(mat_H), mat_H)))))

\* LSTSVM.fit, linear kernel
LSTSVM_fit_linear(self, mat_A, mat_B) ==
  LSTSVM_fit_linear_design(self, DesignMatrix(self, mat_A), DesignMatrix(self, mat_B),
                           np_ones(mat_A.rows, 1), np_ones(mat_B.rows, 1))

\* (1 / reg_term) * (I - P_t . in0 . P), as [singular, m]
SMWPivot_of(P, in0) ==
  [singular |-> in0.singular,
   m |-> IF in0.singular THEN None
         ELSE Scale(FDiv(FOne, reg_term),
                    MatSub(np_identity(P.cols),
                           np_dot(np_dot(np_transpose(P), in0.inv), P)))]

\* (1 / reg_term) * (I - P_t . inv(reg_term * I + P . P_t) . P): the matrix y
\* (P = mat_G) or z (P = mat_H) of the SMW formula, as [singular, m]
SMWPivot(P) ==
  SMWPivot_of(P, np_linalg_inv(MatAdd(Scale(reg_term, np_identity(P.rows)),
                                      np_dot(P, np_transpose(P)))))

\* y - y . R_t . in1 . R . y, as [singular, m]
SMWInner_of(y, R, in1) ==
  [singular |-> in1.singular,
   m |-> IF in1.singular THEN None
         ELSE MatSub(y, np_dot(np_dot(np_dot(y, np_transpose(R)), in1.inv),
                               np_dot(R, y)))]

\* y - y . R_t . inv(D + R . y . R_t) . R . y, as [singular, m]
SMWInner(y, R, D) ==
  SMWInner_of(y, R, np_linalg_inv(MatAdd(D, np_dot(np_dot(R, y), np_transpose(R)))))

\* LSTSVM.fit, RBF kernel, |A| < |B|, from the two inner inverses on: the
\* hyperplanes are stored only after both surfaces are computed
LSTSVM_fit_rbf_y_surfaces(self, mat_H, mat_G, s1, s2) ==
  IF s1.singular \/ s2.singular THEN Raises(self, "LinAlgError")
  ELSE Returns(SetPlane2(
         SetPlane1(self, np_dot(Scale(FromInt(-1), s1.m),
                                np_dot(np_transpose(mat_G), np_ones(mat_G.rows, 1)))),
         np_dot(Scale(self.C2, s2.m),
                np_dot(np_transpose(mat_H), np_ones(mat_H.rows, 1)))))

\* LSTSVM.fit, RBF kernel, |A| < |B|, from the matrix y on
LSTSVM_fit_rbf_y_inner(self, mat_H, mat_G, y) ==
  IF y.singular THEN Raises(self, "LinAlgError")
  ELSE LSTSVM_fit_rbf_y_surfaces(self, mat_H, mat_G,
         SMWInner(y.m, mat_H, Scale(self.C1, np_identity(mat_H.rows))),
         SMWInner(y.m, mat_H, DivBy(np_identity(mat_H.rows), self.C2)))

\* LSTSVM.fit, RBF kernel, |A| < |B|
LSTSVM_fit_rbf_y(self, mat_H, mat_G) ==
  LSTSVM_fit_rbf_y_inner(self, mat_H, mat_G, SMWPivot(mat_G))

\* LSTSVM.fit, RBF kernel, |A| >= |B|, from the two inner inverses on
LSTSVM_fit_rbf_z_surfaces(self, mat_H, mat_G, s1, s2) ==
  IF s1.singular \/ s2.singular THEN Raises(self, "LinAlgError")
  ELSE Returns(SetPlane2(
         SetPlane1(self, np_dot(Scale(self.C1, s1.m),
                                np_dot(np_transpose(mat_G), np_ones(mat_G.rows, 1)))),
         np_dot(s2.m, np_dot(np_transpose(mat_H), np_ones(mat_H.rows, 1)))))

\* LSTSVM.fit, RBF kernel, |A| >= |B|, from the matrix z on
LSTSVM_fit_rbf_z_inner(self, mat_H, mat_G, z) ==
  IF z.singular THEN Raises(self, "LinAlgError")
  ELSE LSTSVM_fit_rbf_z_surfaces(self, mat_H, mat_G,
         SMWInner(z.m, mat_G, DivBy(np_identity(mat_G.rows), self.C1)),
         SMWInner(z.m, mat_G, Scale(self.C2, np_identity(mat_G.rows))))

\* LSTSVM.fit, RBF kernel, |A| >= |B|
LSTSVM_fit_rbf_z(self, mat_H, mat_G) ==
  LSTSVM_fit_rbf_z_inner(self, mat_H, mat_G, SMWPivot(mat_H))

\* LSTSVM.fit, RBF kernel, once self.mat_C_t is stored
\* (mat_H and mat_G have the rows of mat_A and mat_B)
LSTSVM_fit_rbf(self, mat_H, mat_G) ==
  IF mat_H.rows < mat_G.rows THEN LSTSVM_fit_rbf_y(self, mat_H, mat_G)
  ELSE LSTSVM_fit_rbf_z(self, mat_H, mat_G)

\* LSTSVM.fit, RBF kernel
LSTSVM_fit_kernel(self, mat_A, mat_B) ==
  LSTSVM_fit_rbf(self, DesignMatrix(self, mat_A), DesignMatrix(self, mat_B))

\* LSTSVM.fit from the two class matrices on
LSTSVM_fit_classes(self, mat_A, mat_B) ==
  IF self.kernel = "linear" THEN LSTSVM_fit_linear(self, mat_A, mat_B)
  ELSE LSTSVM_fit_kernel([self EXCEPT !.mat_C_t = KernelBasis(self, mat_A, mat_B)],
                         mat_A, mat_B)

LSTSVM_fit(self, X, y) ==
  LSTSVM_fit_classes(self, SelectRows(X, y, 1), SelectRows(X, y, -1))


(***************************************************************************)
(* BaseTSVM.decision_function and BaseTSVM.predict.  A call returns        *)
(* [exc, value]; np.dot raises TypeError on an attribute that is still     *)
(* None and ValueError on operands whose shapes do not match.              *)
(***************************************************************************)
\* np.dot(x, W) for the 1-D x and the column W, as [exc, value]
DotChecked(x, W) ==
  IF x.exc # "None" THEN x
  ELSE IF W = None THEN [exc |-> "TypeError", value |-> None]
  ELSE IF x.value.cols # W.rows THEN [exc |-> "ValueError", value |-> None]
  ELSE [exc |-> "None", value |-> np_dot(x.value, W)]

\* kernel_f[self.kernel](i)
kernel_f(self, X, i) ==
  IF self.kernel = "linear" THEN [exc |-> "None", value |-> Row(X, i)]
  ELSE IF self.mat_C_t = None THEN [exc |-> "TypeError", value |-> None]
  ELSE IF X.cols # self.mat_C_t.rows THEN [exc |-> "ValueError", value |-> None]
  ELSE [exc |-> "None", value |-> rbf_kernel(Row(X, i), self.mat_C_t, self.gamma)]

\* d + b, as [exc, value]
Offset(d, b) ==
  IF d.exc # "None" THEN d
  ELSE [exc |-> "None", value |-> FAdd(d.value.at[1, 1], b.at[1, 1])]

\* np.abs(d), as [exc, value]
np_abs(d) == IF d.exc # "None" THEN d ELSE [d EXCEPT !.value = FAbs(@)]

\* the signed distance: np.dot(kernel_f[self.kernel](i), w) + b without np.abs
Distance_signed(self, X, i, w, b) == Offset(DotChecked(kernel_f(self, X, i), w), b)

\* np.abs(np.dot(kernel_f[self.kernel](i), w) + b)
Distance(self, X, i, w, b) == np_abs(Offset(DotChecked(kernel_f(self, X, i), w), b))

\* row i of dist from its two entries, d1 computed first
DistPair(d1, d0) ==
  IF d1.exc # "None" THEN [exc |-> d1.exc, row |-> <<>>]
  ELSE IF d0.exc # "None" THEN [exc |-> d0.exc, row |-> <<>>]
  ELSE [exc |-> "None", row |-> <<d0.value, d1.value>>]

\* the loop body with the planes exchanged: dist[i, 0] from (w1, b1) and
\* dist[i, 1] from (w2, b2)
DistRow_swapped(self, X, i) ==
  DistPair(Distance(self, X, i, self.w2, self.b2),
           Distance(self, X, i, self.w1, self.b1))

\* the loop body: dist[i, 1] from (w1, b1), then dist[i, 0] from (w2, b2)
DistRow(self, X, i) ==
  DistPair(Distance(self, X, i, self.w1, self.b1),
           Distance(self, X, i, self.w2, self.b2))

\* dist from its n rows: the first row that raised decides the exception
DistOf(n, rows) ==
  IF \E i \in 1..n : rows[i].exc # "None"
  THEN [exc |-> rows[CHOOSE i \in 1..n : /\ rows[i].exc # "None"
                                         /\ \A j \in 1..(i - 1) : rows[j].exc = "None"].exc,
        value |-> None]
  ELSE [exc |-> "None", value |-> Mat(n, 2, LAMBDA i, j : rows[i].row[j])]

decision_function(self, X) ==
  DistOf(X.rows, Forced([i \in 1..X.rows |-> DistRow(self, X, i)]))

\* an argmin that resolves ties to the last smallest entry
np_argmin_last(dist, i) ==
  CHOOSE j \in 0..(dist.cols - 1) :
    /\ \A k \in 0..(dist.cols - 1) : ~FLess(dist.at[i, k + 1], dist.at[i, j + 1])
    /\ \A k \in (j + 1)..(dist.cols - 1) : FLess(dist.at[i, j + 1], dist.at[i, k + 1])

\* np.argmin(dist, axis=1)[i]: the 0-based index of the first smallest entry
np_argmin(dist, i) ==
  CHOOSE j \in 0..(dist.cols - 1) :
    /\ \A k \in 0..(dist.cols - 1) : ~FLess(dist.at[i, k + 1], dist.at[i, j + 1])
    /\ \A k \in 0..(j - 1) : FLess(dist.at[i, j + 1], dist.at[i, k + 1])

\* np.argmin(d, axis=1) for the n rows of d, as [exc, value]
Argmin(d, n) ==
  IF d.exc # "None" THEN [exc |-> d.exc, value |-> <<>>]
  ELSE [exc |-> "None", value |-> [i \in 1..n |-> np_argmin(d.value, i)]]

\* 2 * a - 1, entry by entry
Labels(a) == [a EXCEPT !.value = [i \in DOMAIN a.value |-> 2 * a.value[i] - 1]]

\* np.argmin(self.decision_function(X), axis=1): the column index as the label
predict_argmin(self, X) == Argmin(decision_function(self, X), X.rows)

\* 2 * np.argmin(self.decision_function(X), axis=1) - 1
predict(self, X) == Labels(Argmin(decision_function(self, X), X.rows))

(***************************************************************************)
(* The state machine: one estimator and the calls a client makes on it.    *)
(***************************************************************************)
VARIABLES
  cls,          \* the class of the object: "BaseTSVM", "TSVM" or "LSTSVM"
  kernel, rect_kernel, C1, C2, gamma,   \* hyper-parameters
  mat_C_t, w1, b1, w2, b2,              \* fitted attributes
  ret           \* the last call: its name, arguments, exception and value

vars == <<cls, kernel, rect_kernel, C1, C2, gamma, mat_C_t, w1, b1, w2, b2, ret>>

config == <<cls, kernel, rect_kernel, C1, C2, gamma>>

owned == <<mat_C_t, w1, b1, w2, b2>>

Self == [kernel |-> kernel, rect_kernel |-> rect_kernel, C1 |-> C1, C2 |-> C2,
         gamma |-> gamma, mat_C_t |-> mat_C_t, w1 |-> w1, b1 |-> b1,
         w2 |-> w2, b2 |-> b2]

\* an n x 1 sample matrix with the integer features s[1], ..., s[n]
Samples(s) == Mat(Len(s), 1, LAMBDA i, j : FromInt(s[i]))

Classes == {"BaseTSVM", "TSVM", "LSTSVM"}

Kernels == {"linear", "RBF"}

RectKernels == {Exp2(-1), FOne}

\* training sets (features, labels)
TrainingSets ==
  { [X |-> Samples(<<1, -1>>),     y |-> <<1, -1>>],
    [X |-> Samples(<<-1, 1, 0>>),  y |-> <<1, -1, -1>>],
    [X |-> Samples(<<2, 2>>),      y |-> <<1, -1>>],
    [X |-> Samples(<<-1, 2, 2>>),  y |-> <<1, -1, -1>>],
    [X |-> Samples(<<1, -1>>),     y |-> <<1, 1>>],
    [X |-> Samples(<<1, -1, 0>>),  y |-> <<1, -1, 0>>] }

\* rows of a matrix passed to predict and decision_function
MaxTestRows == 1

TestValues == {0, 2}

RECURSIVE SeqsUpTo(_, _)
SeqsUpTo(S, n) ==
  IF n = 0 THEN {<<>>}
  ELSE LET T == SeqsUpTo(S, n - 1)
       IN T \cup {Append(t, v) : t \in {u \in T : Len(u) = n - 1}, v \in S}

TestSets == {Samples(s) : s \in SeqsUpTo(TestValues, MaxTestRows)}

NoCall == [op |-> "__init__", exc |-> "None", X |-> None, y |-> <<>>,
           labels |-> <<>>, dist |-> None]

\* TSVM(kernel, rect_kernel) / LSTSVM(kernel, rect_kernel) / BaseTSVM(...)
Init ==
  /\ cls \in Classes
  /\ kernel \in Kernels
  /\ rect_kernel \in RectKernels
  /\ C1 = FOne
  /\ C2 = FOne
  /\ gamma = 1
  /\ mat_C_t = None /\ w1 = None /\ b1 = None /\ w2 = None /\ b2 = None
  /\ ret = NoCall

\* the attributes and the record of a fit call that ended as R
AfterFit(R, X, y) ==
  /\ mat_C_t' = R.self.mat_C_t
  /\ w1' = R.self.w1 /\ b1' = R.self.b1
  /\ w2' = R.self.w2 /\ b2' = R.self.b2
  /\ ret' = [NoCall EXCEPT !.op = "fit", !.exc = R.exc, !.X = X, !.y = y]
  /\ UNCHANGED config

BaseFit ==
  /\ cls = "BaseTSVM"
  /\ \E t \in TrainingSets :
       \E R \in {BaseTSVM_fit(Self, t.X, t.y)} : AfterFit(R, t.X, t.y)

TSVMFit ==
  /\ cls = "TSVM"
  /\ \E t \in TrainingSets :
       \E R \in {TSVM_fit(Self, t.X, t.y)} : AfterFit(R, t.X, t.y)

LSTSVMFit ==
  /\ cls = "LSTSVM"
  /\ \E t \in TrainingSets :
       \E R \in {LSTSVM_fit(Self, t.X, t.y)} : AfterFit(R, t.X, t.y)

\* predict on a test matrix, or on the matrix just passed to fit
Predict ==
  \E X \in TestSets \cup (IF ret.op = "fit" THEN {ret.X} ELSE {}) :
    \E R \in {predict(Self, X)} :
      /\ ret' = [NoCall EXCEPT !.op = "predict", !.exc = R.exc, !.X = X,
                               !.labels = R.value]
      /\ UNCHANGED <<config, owned>>

DecisionFunction ==
  \E X \in TestSets :
    \E R \in {decision_function(Self, X)} :
      /\ ret' = [NoCall EXCEPT !.op = "decision_function", !.exc = R.exc,
                               !.X = X, !.dist = R.value]
      /\ UNCHANGED <<config, owned>>

\* set_params(kernel=k): a plain attribute write
SetParams ==
  \E k \in Kernels \ {kernel} :
    /\ kernel' = k
    /\ ret' = [NoCall EXCEPT !.op = "set_params"]
    /\ UNCHANGED <<cls, rect_kernel, C1, C2, gamma, owned>>

Next == BaseFit \/ TSVMFit \/ LSTSVMFit \/ Predict \/ DecisionFunction \/ SetParams

Spec == Init /\ [][Next]_vars


(***************************************************************************)
(* Vocabulary of the properties.                                           *)
(***************************************************************************)
\* the classes whose fit trains a model
Fitters == {"TSVM", "LSTSVM"}

HasLabel(y, v) == \E i \in 1..Len(y) : y[i] = v

ValidLabels(y) == \A i \in 1..Len(y) : y[i] \in {1, -1}

\* a valid training label vector: labels in {+1, -1}, both present
TwoClass(y) == ValidLabels(y) /\ HasLabel(y, 1) /\ HasLabel(y, -1)

\* v is a vector of n labels, each +1 or -1
LabelVector(v, n) == DOMAIN v = 1..n /\ \A i \in 1..n : v[i] \in {1, -1}

\* the sample X[i] as the current estimator transforms it
Transformed(X, i) ==
  IF kernel = "linear" THEN Row(X, i) ELSE rbf_kernel(Row(X, i), mat_C_t, gamma)

\* |t . w + b| for the transformed sample t of X[i]
PlaneDistance(X, i, w, b) ==
  FAbs(FAdd(np_dot(Transformed(X, i), w).at[1, 1], b.at[1, 1]))

\* the estimator before any fit, with the current hyper-parameters
Fresh ==
  [Self EXCEPT !.mat_C_t = None, !.w1 = None, !.b1 = None, !.w2 = None, !.b2 = None]

\* fit of the current class on the estimator self
FitOf(self, X, y) ==
  IF cls = "TSVM" THEN TSVM_fit(self, X, y)
  ELSE IF cls = "LSTSVM" THEN LSTSVM_fit(self, X, y)
  ELSE BaseTSVM_fit(self, X, y)

\* a call of predict that returned
Predicted == ret.op = "predict" /\ ret.exc = "None"

(***************************************************************************)
(* C1.                                                                     *)
(***************************************************************************)
\* C1 (as amended): whenever fit(X, y) of a TSVM or LSTSVM returns on valid
\* two-class data, the predict(X) that follows returns one label per row of
\* X, each +1 or -1.
C1_FitThenPredict ==
  [][(/\ ret.op = "fit" /\ ret.exc = "None" /\ cls \in Fitters /\ TwoClass(ret.y)
      /\ ret'.op = "predict" /\ ret'.X = ret.X)
     => (ret'.exc = "None" /\ LabelVector(ret'.labels, ret.X.rows))]_vars

\* C1, the case: predict on the three samples just fitted returned both labels
C1_Witness ==
  /\ Predicted /\ cls \in Fitters
  /\ ret.X = Samples(<<-1, 1, 0>>)
  /\ LabelVector(ret.labels, 3)
  /\ HasLabel(ret.labels, 1) /\ HasLabel(ret.labels, -1)

\* C1 (as stated): for every valid two-class training set, fit followed by
\* predict on the same X returns a vector of labels +1/-1 of the same length.
C1_Original ==
  (ret.op = "fit" /\ cls \in Fitters /\ TwoClass(ret.y))
  => /\ ret.exc = "None"
     /\ LET R == predict(Self, ret.X)
        IN R.exc = "None" /\ LabelVector(R.value, ret.X.rows)

(***************************************************************************)
(* C2.                                                                     *)
(***************************************************************************)
\* C2: predict labels a sample -1 when its distance to the plane (w2, b2),
\* column 0, is the smaller one, and +1 when its distance to the plane
\* (w1, b1), column 1, is the smaller one.
C2_PredictNearestPlane ==
  Predicted =>
    \A i \in 1..ret.X.rows :
      LET d0 == PlaneDistance(ret.X, i, w2, b2)
          d1 == PlaneDistance(ret.X, i, w1, b1)
      IN /\ ret.labels[i] \in {1, -1}
         /\ FLess(d0, d1) => ret.labels[i] = -1
         /\ FLess(d1, d0) => ret.labels[i] = 1

\* C2, the case: one call labelled a sample nearer plane 1 and one nearer plane 2
C2_Witness ==
  /\ Predicted
  /\ \E i \in 1..ret.X.rows :
       /\ FLess(PlaneDistance(ret.X, i, w1, b1), PlaneDistance(ret.X, i, w2, b2))
       /\ ret.labels[i] = 1
  /\ \E i \in 1..ret.X.rows :
       /\ FLess(PlaneDistance(ret.X, i, w2, b2), PlaneDistance(ret.X, i, w1, b1))
       /\ ret.labels[i] = -1

(***************************************************************************)
(* C3.                                                                     *)
(***************************************************************************)
\* C3 (as stated): fit on a training set in which one of the two classes has
\* no sample fails; it never completes.
C3_EmptyClassFails ==
  (/\ ret.op = "fit" /\ cls \in Fitters /\ ValidLabels(ret.y)
   /\ (~HasLabel(ret.y, 1) \/ ~HasLabel(ret.y, -1)))
  => ret.exc # "None"

C5_FitReplacesState ==
  (ret.op = "fit" /\ ret.exc = "None" /\ cls \in Fitters)
  => LET F == FitOf(Fresh, ret.X, ret.y).self
     IN owned = <<F.mat_C_t, F.w1, F.b1, F.w2, F.b2>>

C7_BadLabelFails ==
  (ret.op = "fit" /\ cls \in Fitters /\ ~ValidLabels(ret.y)) => ret.exc # "None"

(***************************************************************************)
(* C8.                                                                     *)
(***************************************************************************)
\* C8: decision_function returns one row of two non-negative entries per
\* input row; column 0 is |t . w2 + b2| and column 1 is |t . w1 + b1| for
\* the transformed sample t.
C8_DecisionFunction ==
  (ret.op = "decision_function" /\ ret.exc = "None")
  => /\ ret.dist.rows = ret.X.rows
     /\ ret.dist.cols = 2
     /\ \A i \in 1..ret.X.rows :
          /\ ret.dist.at[i, 1].m >= 0
          /\ ret.dist.at[i, 2].m >= 0
          /\ ret.dist.at[i, 1] = PlaneDistance(ret.X, i, w2, b2)
          /\ ret.dist.at[i, 2] = PlaneDistance(ret.X, i, w1, b1)

\* C8, the case: an RBF model returned two different positive distances
C8_Witness ==
  /\ ret.op = "decision_function" /\ ret.exc = "None"
  /\ kernel = "RBF" /\ ret.X.rows = 1
  /\ ret.dist.at[1, 1].m > 0 /\ ret.dist.at[1, 2].m > 0
  /\ ret.dist.at[1, 1] # ret.dist.at[1, 2]

(***************************************************************************)
(* C9.                                                                     *)
(***************************************************************************)
\* C9 (as stated): fit on the base estimator fails with a not-implemented
\* error.
C9_BaseFitFails ==
  (ret.op = "fit" /\ cls = "BaseTSVM") => ret.exc = "NotImplementedError"

(***************************************************************************)
(* C10.                                                                    *)
(***************************************************************************)
\* C10 (as amended): a sample whose two distances tie is labelled -1;
\* predict returns +1 exactly when the distance to plane 1 (column 1) is
\* strictly smaller than the distance to plane 2 (column 0).
C10_TieIsMinusOne ==
  Predicted =>
    LET D == decision_function(Self, ret.X).value
    IN \A i \in 1..ret.X.rows :
         /\ D.at[i, 1] = D.at[i, 2] => ret.labels[i] = -1
         /\ ret.labels[i] = 1 <=> FLess(D.at[i, 2], D.at[i, 1])

\* C10, the case: predict labelled a sample with two equal distances
C10_Witness ==
  /\ Predicted
  /\ \E i \in 1..ret.X.rows :
       /\ PlaneDistance(ret.X, i, w1, b1) = PlaneDistance(ret.X, i, w2, b2)
       /\ ret.labels[i] = -1

\* C10 (as stated): a sample whose two distances tie is labelled +1.
C10_Original ==
  Predicted =>
    LET D == decision_function(Self, ret.X).value
    IN \A i \in 1..ret.X.rows :
         D.at[i, 1] = D.at[i, 2] => ret.labels[i] = 1

====
